---- MODULE Spec2Model ----
(***************************************************************************)
(* Exercise tracker (src/index.js): an Express service over two MongoDB    *)
(* collections, users and exercises.  The model has one action per request *)
(* handler and, for overlapping requests, one per step of the log handler  *)
(* between its awaits.  Instants are seconds since the Unix epoch (UTC);   *)
(* the server's local time zone is a whole-hour offset tz east of UTC.     *)
(* The store is empty at the start: the dropDatabase of the connection's   *)
(* open event has run.  Store failures are not modelled.                   *)
(***************************************************************************)
EXTENDS Integers, Sequences, FiniteSets, TLC

VARIABLES
  users,      \* the users collection: documents [_id, username]
  exercises,  \* the exercises collection: documents [_id, userId, description, duration, date]
  tz,         \* the server's time zone, hours east of UTC
  req,        \* the request answered last
  res,        \* the JSON body it was answered with
  found,      \* the documents exerciseQuery.exec() gave the last log request
  flight      \* a log request whose handler is suspended at an await

vars == <<users, exercises, tz, req, res, found, flight>>

(* ------------------------------------------------------------------ *)
(* Bounds and input domains                                            *)
(* ------------------------------------------------------------------ *)

\* Largest number of documents the exercises collection holds in the model.
MaxExercises == 2

\* A request field that is not sent (JavaScript undefined).
Undefined == "<undefined>"

\* ObjectIds the store hands out to new users, in this order.
IdPool == <<"65a4c0de0000000000000001", "65a4c0de0000000000000002">>

\* A well-formed ObjectId that the store never hands out.
NeverIssuedId == "65a4c0de00000000000000ff"

\* A string that is no ObjectId.
MalformedId == "not-an-id"

UserIds == {IdPool[i] : i \in DOMAIN IdPool}

\* Server clock readings (new Date()): 2024-01-15 at 03:00:00Z and at 21:00:00Z.
EarlyInstant == 19737 * 24 * 3600 + 3 * 3600

LateInstant == 19737 * 24 * 3600 + 21 * 3600

\* An environment is the set of requests clients send, field by field, the time
\* zones the server may run in and the clock readings it may take.

\* Clients that log well-formed exercises and query the log in every way.
LogEnv ==
  [tz          |-> {0},
   clock       |-> {EarlyInstant},
   username    |-> {"bob"},
   userId      |-> UserIds,
   description |-> {"run"},
   duration    |-> {"30"},
   date        |-> {"2024-01-14", "2024-01-15", "2024-01-16"},
   from        |-> {Undefined, "2024-01-15", "soon"},
   to          |-> {Undefined, "2024-01-15", "soon"},
   limit       |-> {Undefined, "abc", "0", "-1", "1", "2", "1abc"}]

\* Clients that send every kind of identifier, description and duration.
ValidationEnv ==
  [tz          |-> {0},
   clock       |-> {EarlyInstant},
   username    |-> {Undefined, "", "bob"},
   userId      |-> UserIds \cup {NeverIssuedId, MalformedId},
   description |-> {"", "run"},
   duration    |-> {Undefined, "", "abc", "30", "-5", "1.5", " "},
   date        |-> {"2024-01-15", "soon"},
   from        |-> {Undefined, "soon"},
   to          |-> {Undefined, "soon"},
   limit       |-> {Undefined, "abc"}]

\* One client on servers in every whole-hour time zone.
DatesEnv ==
  [tz          |-> -12 .. 14,
   clock       |-> {EarlyInstant, LateInstant},
   username    |-> {"bob"},
   userId      |-> {IdPool[1]},
   description |-> {"run"},
   duration    |-> {"30"},
   date        |-> {Undefined, "2024-01-14", "2024-01-15", "2024-01-16"},
   from        |-> {Undefined},
   to          |-> {Undefined},
   limit       |-> {Undefined}]

\* Clients that log exercises while a log request is in progress.
ConcEnv ==
  [tz          |-> {0},
   clock       |-> {EarlyInstant},
   username    |-> {"bob"},
   userId      |-> UserIds,
   description |-> {"run"},
   duration    |-> {"30"},
   date        |-> {"2024-01-14", "2024-01-15", "2024-01-16"},
   from        |-> {Undefined, "2024-01-15"},
   to          |-> {Undefined, "2024-01-15"},
   limit       |-> {Undefined, "1"}]

(* ------------------------------------------------------------------ *)
(* JavaScript values and conversions                                   *)
(* ------------------------------------------------------------------ *)

SecondsPerDay == 24 * 3600

NaN == [nan |-> TRUE, v |-> 0]

Num(n) == [nan |-> FALSE, v |-> n]

isNaN(x) == x.nan

\* !x is false exactly for the truthy values; of the strings, all but "".
Truthy(x) == x \notin {Undefined, ""}

\* Number(duration).  Durations are kept in tenths of a minute so that 1.5 is
\* representable: Number("30") is 300 tenths.  A blank string converts to 0.
Number(s) ==
  CASE s = "30"  -> Num(300)
    [] s = "-5"  -> Num(-50)
    [] s = "1.5" -> Num(15)
    [] s = "0"   -> Num(0)
    [] s = " "   -> Num(0)
    [] s = ""    -> Num(0)
    [] OTHER     -> NaN

\* parseInt(limit): the leading integer numeral of the string, if any.
parseInt(s) ==
  CASE s = "1"    -> Num(1)
    [] s = "2"    -> Num(2)
    [] s = "0"    -> Num(0)
    [] s = "-1"   -> Num(-1)
    [] s = "1abc" -> Num(1)
    [] OTHER      -> NaN

\* Days since the epoch of the calendar dates the model uses.
CalendarDays == 19735 .. 19739

ISODate(day) ==
  CASE day = 19735 -> "2024-01-13"
    [] day = 19736 -> "2024-01-14"
    [] day = 19737 -> "2024-01-15"
    [] day = 19738 -> "2024-01-16"
    [] day = 19739 -> "2024-01-17"

\* Date.prototype.toDateString() of a local calendar day.
DateString(day) ==
  CASE day = 19735 -> "Sat Jan 13 2024"
    [] day = 19736 -> "Sun Jan 14 2024"
    [] day = 19737 -> "Mon Jan 15 2024"
    [] day = 19738 -> "Tue Jan 16 2024"
    [] day = 19739 -> "Wed Jan 17 2024"

\* new Date(s + 'T..:..:..Z') for a time of day given in seconds: the instant,
\* or an invalid date (NaN time) when s is no YYYY-MM-DD date.
ParseDate(s, timeOfDay) ==
  IF \E d \in CalendarDays : ISODate(d) = s
    THEN Num((CHOOSE d \in CalendarDays : ISODate(d) = s) * SecondsPerDay + timeOfDay)
    ELSE NaN

\* now.toISOString().split('T')[0]: the UTC calendar date of an instant.
UTCDate(t) == ISODate(t \div SecondsPerDay)

\* The calendar day the server's wall clock shows at instant t.
LocalDay(t, offset) == (t + offset * 3600) \div SecondsPerDay

\* date.getTimezoneOffset(): minutes to add to local time to get UTC.
getTimezoneOffset(offset) == -(offset * 60)

\* new Date(d.getTime() - d.getTimezoneOffset() * 60000).toDateString()
RenderDate(t, offset) ==
  DateString(LocalDay(t - getTimezoneOffset(offset) * 60, offset))

(* ------------------------------------------------------------------ *)
(* The document store                                                  *)
(* ------------------------------------------------------------------ *)

\* A handler that does not validate the identifier.
AnyObjectId(id) == TRUE

\* mongoose.Types.ObjectId.isValid(userId)
IsValidObjectId(id) == id \in UserIds \cup {NeverIssuedId}

\* User.findById(userId): the set holding the user, empty when there is none.
findById(coll, id) == {u \in coll : u._id = id}

\* The _id the store gives the next user document.
NextUserId(coll) == IdPool[Cardinality(coll) + 1]

\* The _id of the next exercise document.  ObjectIds grow with creation time;
\* the model keeps only the rank.
NextExerciseId(coll) == Cardinality(coll) + 1

\* newExercise.save(): the collection with one more document.
Insert(coll, doc) == coll \cup {doc}

\* Does a document satisfy the filter { userId, date: { $gte, $lte } }?  An
\* absent bound is the empty set.
Matches(doc, query) ==
  /\ doc.userId = query.userId
  /\ \A t \in query.gte : doc.date >= t
  /\ \A t \in query.lte : doc.date <= t

\* All arrangements of a set of documents as a sequence.
Arrangements(docs) ==
  LET n == Cardinality(docs)
  IN  {s \in [1 .. n -> docs] : \A i, j \in 1 .. n : s[i] = s[j] => i = j}

\* The order .sort({ date: -1 }) would ask for.
InReverseSortOrder(s) == \A i \in 1 .. Len(s) - 1 : s[i].date >= s[i + 1].date

\* Is a sequence of documents in the order .sort({ date: 1 }) asks for?
InSortOrder(s) == \A i \in 1 .. Len(s) - 1 : s[i].date <= s[i + 1].date

\* Exercise.find(query).sort({ date: 1 }): the possible results.  The store
\* returns documents of equal date in an order it does not specify.
FindSorted(coll, query) ==
  {s \in Arrangements({d \in coll : Matches(d, query)}) : InSortOrder(s)}

\* Lines 202-207: the limit the handler puts on the query, a number of
\* documents, or none (the empty set).
QueryLimit(limit) ==
  IF Truthy(limit) /\ ~isNaN(parseInt(limit)) /\ parseInt(limit).v > 0
    THEN {parseInt(limit).v}
    ELSE {}

\* exerciseQuery.limit(n) on a sorted result.
Limited(s, lim) ==
  IF lim = {} THEN s
  ELSE LET n == CHOOSE k \in lim : TRUE
       IN  SubSeq(s, 1, IF n < Len(s) THEN n ELSE Len(s))

\* exerciseQuery.exec(): the possible results of the sorted, limited query.
Exec(coll, query, limit) ==
  {Limited(s, QueryLimit(limit)) : s \in FindSorted(coll, query)}

\* A count that leaves out the userId filter.
countAllDocuments(coll, userId) == Cardinality(coll)

\* A count that filters on a field that never holds a user id.
countByDescription(coll, userId) == Cardinality({d \in coll : d.description = userId})

\* Exercise.countDocuments({ userId: userId })
countDocuments(coll, userId) == Cardinality({d \in coll : d.userId = userId})

(* ------------------------------------------------------------------ *)
(* Request handlers                                                    *)
(* ------------------------------------------------------------------ *)

Error(message) == [error |-> message]

\* Line 104: both required fields are present.
RequiredFieldsPresent(description, duration) == Truthy(description) /\ Truthy(duration)

\* Lines 115-124: the instant stored for the exercise, NaN for a bad date.
ExerciseDate(date, now) ==
  IF Truthy(date) THEN ParseDate(date, 12 * 3600)
  ELSE ParseDate(UTCDate(now), 12 * 3600)

\* Lines 217-228: the log entry of a found document.
LogEntry(doc, offset) ==
  [description |-> doc.description,
   duration |-> doc.duration,
   date |-> RenderDate(doc.date, offset)]

\* Lines 163-196: the error the log handler answers with before it queries the
\* exercises, "" when there is none.
LogRejection(userId, from, to) ==
  IF ~IsValidObjectId(userId) THEN "Invalid user ID format"
  ELSE IF findById(users, userId) = {} THEN "User not found"
  ELSE IF Truthy(from) /\ isNaN(ParseDate(from, 0)) THEN "Invalid from date format"
  ELSE IF Truthy(to) /\ isNaN(ParseDate(to, 24 * 3600 - 1)) THEN "Invalid to date format"
  ELSE ""

\* A filter whose upper bound is the start of the day `to`, not its end.
BuildQueryToMidnight(userId, from, to) ==
  [userId |-> userId,
   gte |-> IF Truthy(from) THEN {ParseDate(from, 0).v} ELSE {},
   lte |-> IF Truthy(to) THEN {ParseDate(to, 0).v} ELSE {}]

\* Lines 175-196: the filter of a log request that is not rejected.
BuildQuery(userId, from, to) ==
  [userId |-> userId,
   gte |-> IF Truthy(from) THEN {ParseDate(from, 0).v} ELSE {},
   lte |-> IF Truthy(to) THEN {ParseDate(to, 24 * 3600 - 1).v} ELSE {}]

\* Lines 217-243: the body of a successful log response.
LogResponse(user, docs, count) ==
  [_id |-> user._id, username |-> user.username, count |-> count,
   log |-> [i \in 1 .. Len(docs) |-> LogEntry(docs[i], tz)]]

Idle == [pc |-> "idle"]

InitIn(env) ==
  /\ users = {}
  /\ exercises = {}
  /\ tz \in env.tz
  /\ req = [op |-> "none"]
  /\ res = [status |-> "none"]
  /\ found = << >>
  /\ flight = Idle

\* POST /api/users
CreateUser(username) ==
  /\ req' = [op |-> "createUser", username |-> username]
  /\ found' = << >>
  /\ UNCHANGED <<exercises, tz, flight>>
  /\ IF ~Truthy(username)
       THEN /\ res' = Error("Username is required")
            /\ UNCHANGED users
       ELSE /\ Cardinality(users) < Len(IdPool)
            /\ LET savedUser == [_id |-> NextUserId(users), username |-> username]
               IN  /\ users' = users \cup {savedUser}
                   /\ res' = [username |-> savedUser.username, _id |-> savedUser._id]

\* POST /api/users/:_id/exercises
AddExercise(userId, description, duration, date, now) ==
  /\ req' = [op |-> "addExercise", userId |-> userId, description |-> description,
             duration |-> duration, date |-> date, now |-> now]
  /\ found' = << >>
  /\ UNCHANGED <<users, tz, flight>>
  /\ IF ~IsValidObjectId(userId)
       THEN res' = Error("Invalid user ID format") /\ UNCHANGED exercises
     ELSE IF findById(users, userId) = {}
       THEN res' = Error("User not found") /\ UNCHANGED exercises
     ELSE IF ~RequiredFieldsPresent(description, duration)
       THEN res' = Error("Description and duration are required") /\ UNCHANGED exercises
     ELSE IF isNaN(Number(duration))
       THEN res' = Error("Duration must be a number") /\ UNCHANGED exercises
     ELSE IF isNaN(ExerciseDate(date, now))
       THEN res' = Error("Invalid date format") /\ UNCHANGED exercises
     ELSE LET user == CHOOSE u \in findById(users, userId) : TRUE
              durationNum == Number(duration).v
              exerciseDate == ExerciseDate(date, now).v
              newExercise == [_id |-> NextExerciseId(exercises), userId |-> userId,
                              description |-> description, duration |-> durationNum,
                              date |-> exerciseDate]
          IN  /\ Cardinality(exercises) < MaxExercises
              /\ exercises' = Insert(exercises, newExercise)
              /\ res' = [_id |-> user._id, username |-> user.username,
                         description |-> description, duration |-> durationNum,
                         date |-> RenderDate(exerciseDate, tz)]

\* GET /api/users/:_id/logs, answered before the next request arrives.
GetLog(userId, from, to, limit) ==
  /\ req' = [op |-> "getLog", userId |-> userId, from |-> from, to |-> to,
             limit |-> limit]
  /\ UNCHANGED <<users, exercises, tz, flight>>
  /\ IF LogRejection(userId, from, to) # ""
       THEN res' = Error(LogRejection(userId, from, to)) /\ found' = << >>
       ELSE \E docs \in Exec(exercises, BuildQuery(userId, from, to), limit) :
              /\ found' = docs
              /\ res' = LogResponse(CHOOSE u \in findById(users, userId) : TRUE, docs,
                                    countDocuments(exercises, userId))

\* GET /api/users/:_id/logs while other requests are served, in the three steps
\* its awaits cut it into.  Lines 157-199: up to the query being built.
LogBegin(userId, from, to, limit) ==
  /\ flight = Idle
  /\ UNCHANGED <<users, exercises, tz>>
  /\ IF LogRejection(userId, from, to) # ""
       THEN /\ req' = [op |-> "getLog", userId |-> userId, from |-> from, to |-> to,
                       limit |-> limit]
            /\ res' = Error(LogRejection(userId, from, to))
            /\ found' = << >>
            /\ UNCHANGED flight
       ELSE /\ flight' = [pc |-> "exec", userId |-> userId, from |-> from, to |-> to,
                          limit |-> limit,
                          user |-> CHOOSE u \in findById(users, userId) : TRUE]
            /\ UNCHANGED <<req, res, found>>

\* Line 209: the store runs the query.
LogExec ==
  /\ flight.pc = "exec"
  /\ \E docs \in Exec(exercises, BuildQuery(flight.userId, flight.from, flight.to),
                      flight.limit) :
       flight' = [flight EXCEPT !.pc = "count"] @@ [exercises |-> docs]
  /\ UNCHANGED <<users, exercises, tz, req, res, found>>

\* Lines 231-243: the store counts, and the handler answers.
LogCount ==
  /\ flight.pc = "count"
  /\ req' = [op |-> "getLog", userId |-> flight.userId, from |-> flight.from,
             to |-> flight.to, limit |-> flight.limit]
  /\ found' = flight.exercises
  /\ res' = LogResponse(flight.user, flight.exercises,
                        countDocuments(exercises, flight.userId))
  /\ flight' = Idle
  /\ UNCHANGED <<users, exercises, tz>>

\* Requests answered one at a time.
Requests(env) ==
  \/ \E username \in env.username : CreateUser(username)
  \/ \E userId \in env.userId, description \in env.description,
        duration \in env.duration, date \in env.date, now \in env.clock :
       AddExercise(userId, description, duration, date, now)
  \/ \E userId \in env.userId, from \in env.from, to \in env.to,
        limit \in env.limit :
       GetLog(userId, from, to, limit)

\* A log request that other requests overlap.  The other handlers stay one
\* step each: users are never removed, so nothing that runs between the lookup
\* of the user and the insert of the exercise changes what either does.
Overlapping(env) ==
  \/ \E username \in env.username : CreateUser(username)
  \/ \E userId \in env.userId, description \in env.description,
        duration \in env.duration, date \in env.date, now \in env.clock :
       AddExercise(userId, description, duration, date, now)
  \/ \E userId \in env.userId, from \in env.from, to \in env.to,
        limit \in env.limit :
       LogBegin(userId, from, to, limit)
  \/ LogExec
  \/ LogCount

InitLog == InitIn(LogEnv)

NextLog == Requests(LogEnv)

SpecLog == InitLog /\ [][NextLog]_vars

InitValidation == InitIn(ValidationEnv)

NextValidation == Requests(ValidationEnv)

SpecValidation == InitValidation /\ [][NextValidation]_vars

InitDates == InitIn(DatesEnv)

NextDates == Requests(DatesEnv)

SpecDates == InitDates /\ [][NextDates]_vars

InitConc == InitIn(ConcEnv)

NextConc == Overlapping(ConcEnv)

SpecConc == InitConc /\ [][NextConc]_vars

(* ------------------------------------------------------------------ *)
(* Properties                                                          *)
(* ------------------------------------------------------------------ *)

IsError(body) == "error" \in DOMAIN body

\* The last request was a log request and was answered with a log.
LogAnswered == req.op = "getLog" /\ "log" \in DOMAIN res

\* The last request was an exercise and was answered with the exercise.
ExerciseAnswered == req.op = "addExercise" /\ "duration" \in DOMAIN res

IsCalendarDate(s) == \E d \in CalendarDays : ISODate(d) = s

DayNumber(s) == CHOOSE d \in CalendarDays : ISODate(d) = s

DayOf(t) == t \div (24 * 3600)

StoredOf(userId) == {d \in exercises : d.userId = userId}

\* The stored exercises of a user from 00:00:00 UTC of the day `from` to
\* 23:59:59 UTC of the day `to`, each bound applying when it is given.
InRange(userId, from, to) ==
  {d \in StoredOf(userId) :
     /\ from = Undefined \/ d.date >= DayNumber(from) * 24 * 3600
     /\ to = Undefined \/ d.date <= DayNumber(to) * 24 * 3600 + (24 * 3600 - 1)}

Range(s) == {s[i] : i \in 1 .. Len(s)}

\* C1: a log response's count is the number of stored exercises of the user,
\* whatever from, to and limit are.
C1_CountIsTotal == LogAnswered => res.count = Cardinality(StoredOf(req.userId))

\* C1: a filtered, limited log of one entry whose count is 2.
C1_Witness ==
  /\ LogAnswered
  /\ req.from = "2024-01-15"
  /\ req.limit = "1"
  /\ Len(res.log) = 1
  /\ res.count = 2

\* C2: the date an exercise response shows is the calendar day sent, and the
\* date of every log entry is the calendar day of the stored exercise, in
\* every server time zone.
C2_RenderedDayIsStoredDay ==
  /\ ExerciseAnswered /\ Truthy(req.date)
       => res.date = DateString(DayNumber(req.date))
  /\ LogAnswered
       => \A i \in 1 .. Len(found) : res.log[i].date = DateString(DayOf(found[i].date))

\* C3: without a limit the log holds exactly the user's stored exercises within
\* the inclusive bounds given, and an unparseable from or to is answered with
\* an error.
C3_FilterInclusive ==
  /\ LogAnswered /\ req.limit = Undefined
       => /\ Range(found) = InRange(req.userId, req.from, req.to)
          /\ Len(found) = Cardinality(InRange(req.userId, req.from, req.to))
          /\ Len(res.log) = Len(found)
          /\ \A i \in 1 .. Len(found) :
               /\ res.log[i].description = found[i].description
               /\ res.log[i].duration = found[i].duration
  /\ ( /\ req.op = "getLog"
       /\ \E u \in users : u._id = req.userId
       /\ \/ Truthy(req.from) /\ ~IsCalendarDate(req.from)
          \/ Truthy(req.to) /\ ~IsCalendarDate(req.to) )
       => /\ IsError(res)
          /\ res.error \in {"Invalid from date format", "Invalid to date format"}

\* C3: from and to are the same day; of the user's two exercises the log holds
\* the one stored on that day.
C3_Witness ==
  /\ LogAnswered
  /\ req.from = "2024-01-15" /\ req.to = "2024-01-15" /\ req.limit = Undefined
  /\ Cardinality(StoredOf(req.userId)) = 2
  /\ Len(found) = 1
  /\ DayOf(found[1].date) = DayNumber("2024-01-15")

\* The value of a limit that is a positive integer numeral.
PositiveInteger(limit) == CASE limit = "1" -> 1 [] limit = "2" -> 2 [] OTHER -> 0

\* Is a sequence of n documents a start of a date-ascending arrangement of a set?
StartsAscending(s, docs, n) ==
  /\ Len(s) = n
  /\ Range(s) \subseteq docs
  /\ Cardinality(Range(s)) = n
  /\ \A i \in 1 .. n - 1 : s[i].date <= s[i + 1].date
  /\ \A i \in 1 .. n : \A d \in docs \ Range(s) : s[i].date <= d.date

\* C4: a limit that is a positive integer n cuts the log to the first
\* min(n, m) of the m matching exercises by date; any other limit (absent,
\* non-numeric, zero, negative) leaves all m in the log.
C4_NonNumericLimitIgnored ==
  LogAnswered =>
    LET matching == InRange(req.userId, req.from, req.to)
        m == Cardinality(matching)
        n == PositiveInteger(req.limit)
    IN  IF n > 0
          THEN StartsAscending(found, matching, IF n < m THEN n ELSE m)
          ELSE Range(found) = matching /\ Len(found) = m

\* The part of C4 the handler keeps: the limit read as parseInt reads it, by
\* its leading integer numeral.
C4_LimitByLeadingNumeral ==
  LogAnswered =>
    LET matching == InRange(req.userId, req.from, req.to)
        m == Cardinality(matching)
        n == IF req.limit = "1abc" THEN 1 ELSE PositiveInteger(req.limit)
    IN  IF n > 0
          THEN StartsAscending(found, matching, IF n < m THEN n ELSE m)
          ELSE Range(found) = matching /\ Len(found) = m

\* C5: the log is in ascending order of the stored dates.
C5_LogAscending ==
  LogAnswered =>
    /\ Len(res.log) = Len(found)
    /\ \A i \in 1 .. Len(found) - 1 : found[i].date <= found[i + 1].date

\* C5: a log of two exercises of which the later one was added first.
C5_Witness ==
  /\ LogAnswered
  /\ Len(found) = 2
  /\ found[1]._id > found[2]._id
  /\ found[1].date < found[2].date

\* C6: in both handlers a malformed id is answered 'Invalid user ID format' and
\* a well-formed id of no user 'User not found', whatever the other fields of
\* the request are, and the store stays as it was.
C6_IdChecksFirst ==
  [][ req'.op \in {"addExercise", "getLog"} =>
        /\ req'.userId = MalformedId
             => /\ res' = Error("Invalid user ID format")
                /\ UNCHANGED <<users, exercises>>
        /\ req'.userId # MalformedId /\ ~(\E u \in users : u._id = req'.userId)
             => /\ res' = Error("User not found")
                /\ UNCHANGED <<users, exercises>>
    ]_vars

\* C6: an exercise request with a malformed id and no valid field at all,
\* answered with the id error.
C6_Witness ==
  /\ req.op = "addExercise"
  /\ req.userId = MalformedId
  /\ req.description = "" /\ req.duration = "abc" /\ req.date = "soon"
  /\ res = Error("Invalid user ID format")
  /\ users # {}

\* Durations that are no number: nothing, the empty string, letters, a blank.
NonNumeric == {Undefined, "", "abc", " "}

\* C7: an exercise request for an existing user with an empty description or
\* an absent or non-numeric duration is answered with an error and stores
\* nothing.
C7_RejectsBadFields ==
  [][ ( /\ req'.op = "addExercise"
        /\ \E u \in users : u._id = req'.userId
        /\ req'.description = "" \/ req'.duration \in NonNumeric )
        => IsError(res') /\ exercises' = exercises
    ]_vars

\* The part of C7 the handler keeps: the duration read as Number() reads it,
\* which takes a blank string for 0.
C7_RejectsWhatNumberRejects ==
  [][ ( /\ req'.op = "addExercise"
        /\ \E u \in users : u._id = req'.userId
        /\ req'.description = "" \/ req'.duration \in NonNumeric \ {" "} )
        => /\ IsError(res')
           /\ res'.error \in {"Description and duration are required",
                              "Duration must be a number"}
           /\ exercises' = exercises
    ]_vars

\* C8: every stored exercise has a duration that is a positive integer
\* (durations are in tenths of a minute).
C8_DurationsPositiveIntegers ==
  \A d \in exercises : d.duration > 0 /\ d.duration % 10 = 0

\* C9: an exercise sent without a date is stored on, and shown as, the calendar
\* day the server's clock shows, in every server time zone.
C9_DefaultIsServerDay ==
  ExerciseAnswered /\ ~Truthy(req.date) =>
    /\ res.date = DateString(LocalDay(req.now, tz))
    /\ \E d \in exercises :
         /\ d._id = Cardinality(exercises)
         /\ DayOf(d.date) = LocalDay(req.now, tz)

====
